---- MODULE Spec2Model ----
(***************************************************************************)
(* Model of the ESP8266 appliance-control firmware (src/unnamed/part_000): *)
(* the credential store kept in the EEPROM region, the boot sequence, the  *)
(* provisioning HTTP handlers, the station/broker reconnect procedures,    *)
(* the MQTT message handler and the supervisor loop.                       *)
(*                                                                         *)
(* Strings are sequences of character codes (bytes).  The EEPROM region is *)
(* a function from addresses 0..511 to bytes.  EEPROM.write is taken as    *)
(* the unit of a storage write: it stores (value mod 256) at the address   *)
(* and ignores addresses outside the region.                               *)
(***************************************************************************)
EXTENDS Integers, Sequences, FiniteSets, TLC

(* ------------------------------ bounds -------------------------------- *)
\* The largest number of broker connect attempts counted in one call of
\* reconnect(); the counter feeding it is unbounded in the code.
MaxConnects == 7
\* Length of the short sample strings used as handler arguments.
ShortLen == 1

(* ------------------------- program constants -------------------------- *)
EEPROM_MAGIC == 52532            \* 0xCD34
EEPROM_SIZE == 512
SSID_ADDR == 0
PASS_ADDR == 100
MAGIC_ADDR == 200
CTRL_ADDR == 300
SSID_CAP == 100                  \* loadCredentials: 0 < length < 100
CTRL_CAP == 50                   \* loadControlPassword: 0 < length < 50
WIFI_POLLS == 40                 \* connectToWiFi: timeout < 40
HTTP_POLLS == 20                 \* handleConnect: timeout < 20
MQTT_ATTEMPTS == 5               \* reconnect: attempts < 5

\* "appliances123"
DEFAULT_PASSWORD == <<97, 112, 112, 108, 105, 97, 110, 99, 101, 115, 49, 50, 51>>

\* pinMap[i].name: "d0" .. "d8"
pinMap == [i \in 1..9 |-> <<100, 47 + i>>]
pinCount == Len(pinMap)

(* ------------------------------ strings ------------------------------- *)
Rep(c, n) == [i \in 1..n |-> c]

ToLower(c) == IF c \in 65..90 THEN c + 32 ELSE c

\* strcasecmp(a, b) == 0
StrCaseEq(a, b) ==
    /\ Len(a) = Len(b)
    /\ \A i \in 1..Len(a) : ToLower(a[i]) = ToLower(b[i])

S_on == <<111, 110>>
S_high == <<104, 105, 103, 104>>

(* ------------------------------ EEPROM -------------------------------- *)
Addrs == 0..(EEPROM_SIZE - 1)

\* EEPROM.write(address, value)
EEPROMWrite(e, a, v) == IF a \in Addrs THEN [e EXCEPT ![a] = v % 256] ELSE e

\* EEPROM.read(address)
EEPROMRead(e, a) == IF a \in Addrs THEN e[a] ELSE 0

RECURSIVE ApplyRange(_, _, _, _)
\* the writes ws[lo..hi] applied in order; the range is split in halves and
\* the first half is evaluated (DOMAIN test) before the second is applied
ApplyRange(e, ws, lo, hi) ==
    IF lo > hi THEN e
    ELSE IF lo = hi THEN EEPROMWrite(e, ws[lo][1], ws[lo][2])
    ELSE LET mid == (lo + hi) \div 2
             first == ApplyRange(e, ws, lo, mid)
         IN  IF 0 \in DOMAIN first THEN ApplyRange(first, ws, mid + 1, hi) ELSE first

\* the first k writes of the list ws, applied in order
ApplyWrites(e, ws, k) == ApplyRange(e, ws, 1, k)

\* for (i = 0; i < 512; i++) EEPROM.write(i, 0);
ZeroWrites == [i \in 1..EEPROM_SIZE |-> <<i - 1, 0>>]

\* EEPROM.write(base, s.length()); for i: EEPROM.write(base + 1 + i, s[i]);
FieldWrites(base, s) == <<<<base, Len(s)>>>> \o [i \in 1..Len(s) |-> <<base + i, s[i]>>]

MagicWrites ==
    << <<MAGIC_ADDR, (EEPROM_MAGIC \div 256) % 256>>,
       <<MAGIC_ADDR + 1, EEPROM_MAGIC % 256>> >>

\* saveCredentials() that does not write the control secret back after zeroing
saveCredentialsWrites_dropCtrl(ssid, password, ctrl) ==
    ZeroWrites \o FieldWrites(SSID_ADDR, ssid) \o FieldWrites(PASS_ADDR, password)
               \o MagicWrites

\* the storage writes of saveCredentials(ssid, password), in program order
saveCredentialsWrites(ssid, password, ctrl) ==
    ZeroWrites \o FieldWrites(SSID_ADDR, ssid) \o FieldWrites(PASS_ADDR, password)
               \o FieldWrites(CTRL_ADDR, ctrl) \o MagicWrites

saveCredentials(e, ssid, password, ctrl) ==
    LET ws == saveCredentialsWrites(ssid, password, ctrl)
    IN  ApplyWrites(e, ws, Len(ws))

\* clearEEPROM() with a loop that stops at the marker address
clearEEPROM_upToMarker(e) == ApplyWrites(e, ZeroWrites, MAGIC_ADDR)

\* the region after clearEEPROM()
clearEEPROM(e) == ApplyWrites(e, ZeroWrites, Len(ZeroWrites))

\* int magic = (EEPROM.read(200) << 8) | EEPROM.read(201);
ReadMagic(e) == EEPROMRead(e, MAGIC_ADDR) * 256 + EEPROMRead(e, MAGIC_ADDR + 1)

Valid(e) == ReadMagic(e) = EEPROM_MAGIC

\* the bytes of a length-prefixed field read without the upper length test
ReadField_noUpperTest(e, base, cap) ==
    LET n == EEPROMRead(e, base)
    IN  IF n > 0 THEN [i \in 1..n |-> EEPROMRead(e, base + i)] ELSE <<>>

\* the bytes of a length-prefixed field, or nothing when the length byte is
\* outside 1..cap-1
ReadField(e, base, cap) ==
    LET n == EEPROMRead(e, base)
    IN  IF n > 0 /\ n < cap THEN [i \in 1..n |-> EEPROMRead(e, base + i)] ELSE <<>>

\* loadCredentials() with the length tests narrowed by one
loadCredentials_offByOne(e, ssid0, pass0) ==
    IF ReadMagic(e) # EEPROM_MAGIC
    THEN [ssid |-> ssid0, password |-> pass0]
    ELSE [ssid |-> ssid0 \o ReadField(e, SSID_ADDR, SSID_CAP - 1),
          password |-> pass0 \o ReadField(e, PASS_ADDR, SSID_CAP - 1)]

\* loadCredentials(): appends to ssid_stored / password_stored
loadCredentials(e, ssid0, pass0) ==
    IF ReadMagic(e) # EEPROM_MAGIC
    THEN [ssid |-> ssid0, password |-> pass0]
    ELSE [ssid |-> ssid0 \o ReadField(e, SSID_ADDR, SSID_CAP),
          password |-> pass0 \o ReadField(e, PASS_ADDR, SSID_CAP)]

\* loadControlPassword(): replaces control_password_stored only when the
\* stored length is in 1..49
loadControlPassword(e, ctrl0) ==
    LET n == EEPROMRead(e, CTRL_ADDR)
    IN  IF n > 0 /\ n < CTRL_CAP THEN ReadField(e, CTRL_ADDR, CTRL_CAP) ELSE ctrl0

\* saveControlPassword() that zeroes the region first, as saveCredentials() does
saveControlPassword_zeroFirst(e, password) ==
    LET ws == ZeroWrites \o FieldWrites(CTRL_ADDR, password)
    IN  ApplyWrites(e, ws, Len(ws))

\* the region after saveControlPassword(password)
saveControlPassword(e, password) ==
    LET ws == FieldWrites(CTRL_ADDR, password)
    IN  ApplyWrites(e, ws, Len(ws))

\* validateControlPassword(password)
validateControlPassword(password, ctrl) == password = ctrl

(* ---------------------------- output bank ------------------------------ *)
AllLow == [i \in 1..pinCount |-> FALSE]

\* setupPins(): every line is driven LOW
setupPins(g) == [i \in 1..pinCount |-> FALSE]

\* index of the first pinMap entry whose name matches the key, 0 if none
PinIndex(key) ==
    LET hits == {i \in 1..pinCount : StrCaseEq(pinMap[i], key)}
    IN  IF hits = {} THEN 0 ELSE CHOOSE i \in hits : \A j \in hits : i <= j

\* the level written for a value string when only "on" is accepted
IsOn_onOnly(value) == StrCaseEq(value, S_on)

\* the level written for a value string
IsOn(value) == StrCaseEq(value, S_on) \/ StrCaseEq(value, S_high)

\* one JsonPair of the "pins" object whose value is a string
ApplyEntry(g, kv) ==
    LET i == PinIndex(kv.key)
    IN  IF i = 0 THEN g ELSE [g EXCEPT ![i] = IsOn(kv.value)]

\* one JsonPair of the "pins" object.  For a value that is not a string
\* as<const char*>() yields a null pointer; once the key has matched a pin,
\* strcasecmp(value, "on") reads through it: the load from address 0 raises
\* an exception that resets the chip, or it returns bytes that compare either
\* way.  A null value under a key that matches no pin is never read.
EntryOutcomes(g, kv) ==
    LET i == PinIndex(kv.key)
    IN  IF i = 0 \/ kv.isStr
        THEN {[gpio |-> ApplyEntry(g, kv), crashed |-> FALSE]}
        ELSE {[gpio |-> g, crashed |-> TRUE]}
             \cup {[gpio |-> [g EXCEPT ![i] = b], crashed |-> FALSE] : b \in BOOLEAN}

RECURSIVE ApplyControls(_, _, _)
\* for (JsonPair kv : controls): the outcomes of the first k entries, taken in
\* order; nothing follows an entry that reset the chip
ApplyControls(g, controls, k) ==
    IF k = 0 THEN {[gpio |-> g, crashed |-> FALSE]}
    ELSE UNION {IF o.crashed THEN {o} ELSE EntryOutcomes(o.gpio, controls[k]) :
                o \in ApplyControls(g, controls, k - 1)}

\* the payload of publish_state() without the entry of the last pin
StatePayload_lastPinMissing(g) == [i \in 1..(pinCount - 1) |-> IF g[i] THEN "on" ELSE "off"]

\* the payload built by publish_state()
StatePayload(g) == [i \in 1..pinCount |-> IF g[i] THEN "on" ELSE "off"]

\* String receivedPassword = doc["password"] | "";
ReceivedPassword(msg) == IF msg.hasPw THEN msg.pw ELSE <<>>

\* callback() with the pin entries applied before the password is checked
callback_applyFirst(msg, ctrl, g) ==
    IF ~msg.ok
    THEN {[gpio |-> g, crashed |-> FALSE, pub |-> FALSE, log |-> "JSON parse error"]}
    ELSE IF ~validateControlPassword(ReceivedPassword(msg), ctrl)
         THEN {[gpio |-> o.gpio, crashed |-> o.crashed, pub |-> FALSE,
                log |-> "Invalid password!"] :
               o \in ApplyControls(g, msg.pins, Len(msg.pins))}
         ELSE {[gpio |-> o.gpio, crashed |-> o.crashed, pub |-> ~o.crashed,
                log |-> "Password validated"] :
               o \in ApplyControls(g, msg.pins, Len(msg.pins))}

\* callback(): the ways it can end: the output levels it leaves, whether the
\* chip was reset in the pin loop, whether it reaches publish_state(), and its
\* verdict on the serial log
callback(msg, ctrl, g) ==
    IF ~msg.ok
    THEN {[gpio |-> g, crashed |-> FALSE, pub |-> FALSE, log |-> "JSON parse error"]}
    ELSE IF ~validateControlPassword(ReceivedPassword(msg), ctrl)
         THEN {[gpio |-> g, crashed |-> FALSE, pub |-> FALSE, log |-> "Invalid password!"]}
         ELSE {[gpio |-> o.gpio, crashed |-> o.crashed, pub |-> ~o.crashed,
                log |-> "Password validated"] :
               o \in ApplyControls(g, msg.pins, Len(msg.pins))}

(* ------------------------------ inputs -------------------------------- *)
K_d0 == <<100, 48>>
K_D1 == <<68, 49>>
K_d9 == <<100, 57>>
V_on == S_on
V_HIGH == <<72, 73, 71, 72>>
V_off == <<111, 102, 102>>
V_low == <<108, 111, 119>>
V_1 == <<49>>
V_empty == <<>>
V_oN == <<111, 78>>

\* entries whose value is a string, and entries whose value is a JSON number
\* or boolean (no characters)
PinEntries ==
    {[key |-> k, value |-> v, isStr |-> TRUE] :
        k \in {K_d0, K_D1, K_d9}, v \in {V_on, V_HIGH, V_off}}
    \cup {[key |-> k, value |-> <<>>, isStr |-> FALSE] : k \in {K_d0, K_D1, K_d9}}

\* further string values for one pin: "low", "1", the empty string, "oN"
OddEntries ==
    {[key |-> K_D1, value |-> v, isStr |-> TRUE] : v \in {V_low, V_1, V_empty, V_oN}}

\* no entry, one entry, and pairs of entries that start or end with the
\* unknown key or name the same pin twice
PinLists ==
    {<<>>} \cup {<<e>> : e \in PinEntries \cup OddEntries}
           \cup {<<e1, e2>> : e1 \in {x \in PinEntries : x.value = V_on},
                              e2 \in {x \in PinEntries : x.value # V_HIGH /\ x.key # K_D1}}
           \cup {<<e1, e2>> : e1 \in {x \in PinEntries : ~x.isStr /\ x.key # K_D1},
                              e2 \in {x \in PinEntries : x.value = V_on /\ x.key = K_D1}}

MsgPasswords == {<<>>, DEFAULT_PASSWORD, Rep(120, ShortLen), Rep(121, ShortLen)}

NoMsg == [ok |-> FALSE, hasPw |-> FALSE, pw |-> <<>>, pins |-> <<>>]

\* a payload that fails to parse, commands without password field, and
\* commands with a password field
Messages ==
    {NoMsg}
    \cup {[ok |-> TRUE, hasPw |-> FALSE, pw |-> <<>>, pins |-> l] : l \in PinLists}
    \cup {[ok |-> TRUE, hasPw |-> TRUE, pw |-> p, pins |-> l] : p \in MsgPasswords, l \in PinLists}

\* arguments of the provisioning requests
SsidArgs == {<<>>, Rep(97, ShortLen)}
PassArgs == {Rep(115, ShortLen)}
CtrlArgs == {<<>>, Rep(120, ShortLen)}

NoReq == [ssid |-> <<>>, password |-> <<>>, ctrl |-> <<>>]

\* no saveCredentials() stands in the region
NoSave == [valid |-> FALSE, ssid |-> <<>>, password |-> <<>>]

\* region contents a device can start from
Blank00 == [a \in Addrs |-> 0]
BlankFF == [a \in Addrs |-> 255]
\* leftover bytes without the marker: a name, a secret and a control secret
Garbage ==
    [a \in Addrs |-> IF a \in {SSID_ADDR, PASS_ADDR, CTRL_ADDR} THEN 1
                     ELSE IF a \in {SSID_ADDR + 1, PASS_ADDR + 1} THEN 122
                     ELSE IF a = CTRL_ADDR + 1 THEN 120
                     ELSE 0]
\* the marker with a name length byte outside 1..99
CorruptLen == [Blank00 EXCEPT ![MAGIC_ADDR] = 205, ![MAGIC_ADDR + 1] = 52, ![SSID_ADDR] = 200]

\* the marker with the smallest name length byte that is rejected, in front
\* of name bytes and a well-formed secret
CorruptLen100 ==
    [a \in Addrs |-> IF a = MAGIC_ADDR THEN 205
                     ELSE IF a = MAGIC_ADDR + 1 THEN 52
                     ELSE IF a = SSID_ADDR THEN SSID_CAP
                     ELSE IF a \in (SSID_ADDR + 1)..(SSID_ADDR + SSID_CAP - 1) THEN 122
                     ELSE IF a = PASS_ADDR THEN 1
                     ELSE IF a = PASS_ADDR + 1 THEN 115
                     ELSE 0]

InitRegions == {Blank00, BlankFF, Garbage, CorruptLen, CorruptLen100}

\* what a step sends to the outside: nothing, an HTTP response, a state
\* message, or a verdict on the serial log
NoOut == [chan |-> "none", body |-> <<>>]
LogOut(text) == [chan |-> "log", body |-> <<text>>]
HttpOut(text) == [chan |-> "http", body |-> <<text>>]
StateOut(payload) == [chan |-> "state", body |-> payload]

(* ------------------------------- state -------------------------------- *)
VARIABLES
    eeprom,                   \* the persisted region
    ssid_stored,              \* globals of the sketch
    password_stored,
    control_password_stored,
    configMode,
    gpio,                     \* level of each output line (TRUE = HIGH)
    pc,                       \* position of the single thread of control
    ret,                      \* caller of connectToWiFi: "setup" or "loop"
    timeout,                  \* polling counter of the running connection attempt
    attempts,                 \* reconnect(): failed attempts
    connects,                 \* reconnect(): client.connect calls made in this call
    wifiMode,                 \* "OFF", "STA" or "AP"
    wifiUp,                   \* WiFi.status() == WL_CONNECTED
    armed,                    \* client.setServer / setCallback done
    mqttConnected,            \* client.connected()
    subscribed,               \* command topic subscribed in the current session
    announced,                \* state published in the current session
    statePublished,           \* a state message was published since the chip started
    inbox,                    \* message handed to callback()
    req,                      \* arguments of the request being served
    emitted,                  \* what the last step of the sketch sent out
    wcount,                   \* storage writes of the running save already made
    gpio0Low,                 \* setup() of this run read GPIO0 LOW (override asserted)
    lastSaved                 \* arguments of the saveCredentials() whose result
                              \* stands in the region (history)

vars == <<eeprom, ssid_stored, password_stored, control_password_stored, configMode,
          gpio, pc, ret, timeout, attempts, connects, wifiMode, wifiUp, armed,
          mqttConnected, subscribed, announced, statePublished, inbox, req, emitted,
          wcount,
          gpio0Low, lastSaved>>

storeVars == <<eeprom, ssid_stored, password_stored, control_password_stored>>
wifiVars == <<wifiMode, wifiUp, armed, configMode>>
chanVars == <<mqttConnected, subscribed, announced, statePublished, inbox, attempts,
              connects>>

\* values of the globals and peripherals when the sketch starts
RamInit ==
    /\ ssid_stored = <<>>
    /\ password_stored = <<>>
    /\ control_password_stored = DEFAULT_PASSWORD
    /\ configMode = FALSE
    /\ ret = "setup"
    /\ timeout = 0
    /\ attempts = 0
    /\ connects = 0
    /\ wifiMode = "OFF"
    /\ armed = FALSE
    /\ mqttConnected = FALSE
    /\ subscribed = FALSE
    /\ announced = FALSE
    /\ statePublished = FALSE
    /\ inbox = NoMsg
    /\ req = NoReq
    /\ emitted = NoOut
    /\ wcount = 0
    /\ gpio0Low = FALSE
    /\ lastSaved = NoSave

AllHigh == [i \in 1..pinCount |-> TRUE]

Init ==
    /\ RamInit
    /\ eeprom \in InitRegions
    /\ gpio \in {AllLow, AllHigh}
    /\ wifiUp \in BOOLEAN
    /\ pc = "boot"

\* a restart after which the String ssid_stored still holds its old value
Reboot_keepsName ==
    /\ ssid_stored' = ssid_stored
    /\ password_stored' = <<>>
    /\ control_password_stored' = DEFAULT_PASSWORD
    /\ configMode' = FALSE
    /\ ret' = "setup"
    /\ timeout' = 0
    /\ attempts' = 0
    /\ connects' = 0
    /\ wifiMode' = "OFF"
    /\ armed' = FALSE
    /\ mqttConnected' = FALSE
    /\ subscribed' = FALSE
    /\ announced' = FALSE
    /\ statePublished' = FALSE
    /\ inbox' = NoMsg
    /\ req' = NoReq
    /\ emitted' = NoOut
    /\ wcount' = 0
    /\ gpio0Low' = FALSE
    /\ gpio' \in {AllLow, AllHigh}
    /\ pc' = "boot"
    /\ UNCHANGED <<wifiUp, lastSaved>>

\* ESP.restart() or a power cycle: RAM is lost, the region is kept; the
\* level of the output lines is not determined until setupPins() drives them
Reboot ==
    /\ ssid_stored' = <<>>
    /\ password_stored' = <<>>
    /\ control_password_stored' = DEFAULT_PASSWORD
    /\ configMode' = FALSE
    /\ ret' = "setup"
    /\ timeout' = 0
    /\ attempts' = 0
    /\ connects' = 0
    /\ wifiMode' = "OFF"
    /\ armed' = FALSE
    /\ mqttConnected' = FALSE
    /\ subscribed' = FALSE
    /\ announced' = FALSE
    /\ statePublished' = FALSE
    /\ inbox' = NoMsg
    /\ req' = NoReq
    /\ emitted' = NoOut
    /\ wcount' = 0
    /\ gpio0Low' = FALSE
    /\ gpio' \in {AllLow, AllHigh}
    /\ pc' = "boot"
    /\ UNCHANGED <<wifiUp, lastSaved>>

\* the reset that follows an exception: as Reboot, after the exception dump
\* on the serial port
ExceptionReset ==
    /\ ssid_stored' = <<>>
    /\ password_stored' = <<>>
    /\ control_password_stored' = DEFAULT_PASSWORD
    /\ configMode' = FALSE
    /\ ret' = "setup"
    /\ timeout' = 0
    /\ attempts' = 0
    /\ connects' = 0
    /\ wifiMode' = "OFF"
    /\ armed' = FALSE
    /\ mqttConnected' = FALSE
    /\ subscribed' = FALSE
    /\ announced' = FALSE
    /\ statePublished' = FALSE
    /\ inbox' = NoMsg
    /\ req' = NoReq
    /\ emitted' = LogOut("Exception (28)")
    /\ wcount' = 0
    /\ gpio0Low' = FALSE
    /\ gpio' \in {AllLow, AllHigh}
    /\ pc' = "boot"
    /\ UNCHANGED <<eeprom, wifiUp, lastSaved>>

(* ------------------------------- boot --------------------------------- *)
\* startConfigMode() that brings the access point up without setting configMode
startConfigMode_apOnly ==
    /\ configMode' = configMode
    /\ wifiMode' = "AP"

\* startConfigMode()
startConfigMode ==
    /\ configMode' = TRUE
    /\ wifiMode' = "AP"

\* setup() calling connectToWiFi() whether or not a network name was loaded
Setup_connectAlways ==
    /\ pc = "boot"
    /\ gpio' = setupPins(gpio)
    /\ \E button \in BOOLEAN :
         IF button
         THEN \* clearEEPROM(); startConfigMode(); return;
              /\ gpio0Low' = TRUE
              /\ eeprom' = clearEEPROM(eeprom)
              /\ lastSaved' = NoSave
              /\ ssid_stored' = <<>>
              /\ password_stored' = <<>>
              /\ control_password_stored' = DEFAULT_PASSWORD
              /\ startConfigMode
              /\ pc' = "loop"
              /\ UNCHANGED <<ret, timeout>>
         ELSE LET cred == loadCredentials(eeprom, ssid_stored, password_stored)
              IN  /\ gpio0Low' = FALSE
                  /\ lastSaved' = lastSaved
                  /\ ssid_stored' = cred.ssid
                  /\ password_stored' = cred.password
                  /\ control_password_stored' =
                         loadControlPassword(eeprom, control_password_stored)
                  /\ eeprom' = eeprom
                  /\ IF Len(cred.ssid) >= 0
                     THEN \* connectToWiFi(): WiFi.mode(WIFI_STA); WiFi.begin(..)
                          /\ wifiMode' = "STA"
                          /\ timeout' = 0
                          /\ ret' = "setup"
                          /\ pc' = "wifi_poll"
                          /\ configMode' = configMode
                     ELSE /\ startConfigMode
                          /\ pc' = "loop"
                          /\ UNCHANGED <<ret, timeout>>
    /\ emitted' = NoOut
    /\ UNCHANGED <<wifiUp, armed, req, wcount>>
    /\ UNCHANGED chanVars

\* setup(): button is the level read on GPIO0 (TRUE = LOW, override asserted).
\* Runs up to the call of connectToWiFi(), whose polling loop follows.
Setup ==
    /\ pc = "boot"
    /\ gpio' = setupPins(gpio)
    /\ \E button \in BOOLEAN :
         IF button
         THEN \* clearEEPROM(); startConfigMode(); return;
              /\ gpio0Low' = TRUE
              /\ eeprom' = clearEEPROM(eeprom)
              /\ lastSaved' = NoSave
              /\ ssid_stored' = <<>>
              /\ password_stored' = <<>>
              /\ control_password_stored' = DEFAULT_PASSWORD
              /\ startConfigMode
              /\ pc' = "loop"
              /\ UNCHANGED <<ret, timeout>>
         ELSE LET cred == loadCredentials(eeprom, ssid_stored, password_stored)
              IN  /\ gpio0Low' = FALSE
                  /\ lastSaved' = lastSaved
                  /\ ssid_stored' = cred.ssid
                  /\ password_stored' = cred.password
                  /\ control_password_stored' =
                         loadControlPassword(eeprom, control_password_stored)
                  /\ eeprom' = eeprom
                  /\ IF Len(cred.ssid) > 0
                     THEN \* connectToWiFi(): WiFi.mode(WIFI_STA); WiFi.begin(..)
                          /\ wifiMode' = "STA"
                          /\ timeout' = 0
                          /\ ret' = "setup"
                          /\ pc' = "wifi_poll"
                          /\ configMode' = configMode
                     ELSE /\ startConfigMode
                          /\ pc' = "loop"
                          /\ UNCHANGED <<ret, timeout>>
    /\ emitted' = NoOut
    /\ UNCHANGED <<wifiUp, armed, req, wcount>>
    /\ UNCHANGED chanVars

(* -------------------------- connectToWiFi ----------------------------- *)
\* the polling loop of connectToWiFi() with the test  timeout <= 40
WifiPoll_oneMore ==
    /\ pc = "wifi_poll"
    /\ IF ~wifiUp /\ timeout <= WIFI_POLLS
       THEN /\ timeout' = timeout + 1
            /\ pc' = pc
       ELSE /\ timeout' = timeout
            /\ pc' = "wifi_done"
    /\ emitted' = NoOut
    /\ UNCHANGED <<gpio, ret, req, wcount>>
    /\ UNCHANGED storeVars
    /\ UNCHANGED wifiVars
    /\ UNCHANGED chanVars
    /\ UNCHANGED <<gpio0Low, lastSaved>>

\* one evaluation of  while (WiFi.status() != WL_CONNECTED && timeout < 40)
WifiPoll ==
    /\ pc = "wifi_poll"
    /\ IF ~wifiUp /\ timeout < WIFI_POLLS
       THEN /\ timeout' = timeout + 1
            /\ pc' = pc
       ELSE /\ timeout' = timeout
            /\ pc' = "wifi_done"
    /\ emitted' = NoOut
    /\ UNCHANGED <<gpio, ret, req, wcount>>
    /\ UNCHANGED storeVars
    /\ UNCHANGED wifiVars
    /\ UNCHANGED chanVars
    /\ UNCHANGED <<gpio0Low, lastSaved>>

\* where connectToWiFi() returns to
AfterWifi == IF ret = "setup" THEN "loop" ELSE "mqtt_check"

\* the end of connectToWiFi() without the fallback to startConfigMode()
WifiDone_noFallback ==
    /\ pc = "wifi_done"
    /\ IF wifiUp
       THEN /\ armed' = TRUE
            /\ emitted' = LogOut("WiFi connected!")
       ELSE /\ emitted' = LogOut("WiFi connection failed!")
            /\ armed' = armed
    /\ UNCHANGED <<configMode, wifiMode>>
    /\ pc' = AfterWifi
    /\ ret' = "setup"
    /\ timeout' = 0
    /\ UNCHANGED <<gpio, wifiUp, req, wcount>>
    /\ UNCHANGED storeVars
    /\ UNCHANGED chanVars
    /\ UNCHANGED <<gpio0Low, lastSaved>>

\* if (WiFi.status() == WL_CONNECTED) { arm the client } else startConfigMode()
WifiDone ==
    /\ pc = "wifi_done"
    /\ IF wifiUp
       THEN /\ armed' = TRUE
            /\ emitted' = LogOut("WiFi connected!")
            /\ UNCHANGED <<configMode, wifiMode>>
       ELSE /\ startConfigMode
            /\ emitted' = LogOut("WiFi connection failed! Starting config mode...")
            /\ armed' = armed
    /\ pc' = AfterWifi
    /\ ret' = "setup"
    /\ timeout' = 0
    /\ UNCHANGED <<gpio, wifiUp, req, wcount>>
    /\ UNCHANGED storeVars
    /\ UNCHANGED chanVars
    /\ UNCHANGED <<gpio0Low, lastSaved>>

(* ----------------------- provisioning handlers ------------------------ *)
\* a client can reach the HTTP server of the sketch: through the device's own
\* access point, or through the network the station interface has joined
HttpReachable == wifiMode = "AP" \/ (wifiMode = "STA" /\ wifiUp)

\* server.handleClient() called in both branches of loop()
ServingRequest_anyMode == pc = "loop" /\ HttpReachable

\* loop(), Provisioning branch: server.handleClient() has a request to serve
ServingRequest == pc = "loop" /\ configMode /\ HttpReachable

\* handleScan() calling setupPins() before the survey
HandleScan_resetsPins ==
    /\ ServingRequest
    /\ gpio' = AllLow
    /\ emitted' = HttpOut("networks")
    /\ UNCHANGED <<pc, ret, timeout, req, wcount>>
    /\ UNCHANGED storeVars
    /\ UNCHANGED wifiVars
    /\ UNCHANGED chanVars
    /\ UNCHANGED <<gpio0Low, lastSaved>>

\* handleScan(): a survey and a response, no state of the sketch changes
HandleScan ==
    /\ ServingRequest
    /\ emitted' = HttpOut("networks")
    /\ UNCHANGED <<gpio, pc, ret, timeout, req, wcount>>
    /\ UNCHANGED storeVars
    /\ UNCHANGED wifiVars
    /\ UNCHANGED chanVars
    /\ UNCHANGED <<gpio0Low, lastSaved>>

\* handleConnect() up to its polling loop
HandleConnect ==
    /\ ServingRequest
    /\ \E n \in SsidArgs, s \in PassArgs :
         req' = [ssid |-> n, password |-> s, ctrl |-> <<>>]
    /\ wifiMode' = "STA"
    /\ timeout' = 0
    /\ pc' = "hc_poll"
    /\ emitted' = NoOut
    /\ UNCHANGED <<gpio, ret, wifiUp, armed, configMode, wcount>>
    /\ UNCHANGED storeVars
    /\ UNCHANGED chanVars
    /\ UNCHANGED <<gpio0Low, lastSaved>>

\* one evaluation of  while (WiFi.status() != WL_CONNECTED && timeout < 20)
ConnectPoll ==
    /\ pc = "hc_poll"
    /\ IF ~wifiUp /\ timeout < HTTP_POLLS
       THEN /\ timeout' = timeout + 1
            /\ pc' = pc
       ELSE /\ timeout' = timeout
            /\ pc' = "hc_done"
    /\ emitted' = NoOut
    /\ UNCHANGED <<gpio, ret, req, wcount>>
    /\ UNCHANGED storeVars
    /\ UNCHANGED wifiVars
    /\ UNCHANGED chanVars
    /\ UNCHANGED <<gpio0Low, lastSaved>>

\* the tail of handleConnect() that, on success, arms the client and leaves
\* configuration mode in place instead of restarting
ConnectDone_switchInPlace ==
    /\ pc = "hc_done"
    /\ IF wifiUp
       THEN /\ eeprom' = saveCredentials(eeprom, req.ssid, req.password,
                                         control_password_stored)
            /\ lastSaved' = [valid |-> TRUE, ssid |-> req.ssid, password |-> req.password]
            /\ emitted' = HttpOut("success:true")
            /\ configMode' = FALSE
            /\ armed' = TRUE
       ELSE /\ emitted' = HttpOut("success:false")
            /\ eeprom' = eeprom
            /\ UNCHANGED <<configMode, armed, lastSaved>>
    /\ pc' = "loop"
    /\ req' = NoReq
    /\ timeout' = 0
    /\ UNCHANGED <<ssid_stored, password_stored, control_password_stored>>
    /\ UNCHANGED <<gpio, ret, wcount, wifiMode, wifiUp, gpio0Low>>
    /\ UNCHANGED chanVars

\* the tail of handleConnect(): saveCredentials() (the response and the
\* restart follow), or the failure response and the return
ConnectDone ==
    /\ pc = "hc_done"
    /\ IF wifiUp
       THEN /\ eeprom' = saveCredentials(eeprom, req.ssid, req.password,
                                         control_password_stored)
            /\ lastSaved' = [valid |-> TRUE, ssid |-> req.ssid, password |-> req.password]
            /\ emitted' = NoOut
            /\ pc' = "http_respond"
            /\ req' = req
       ELSE /\ emitted' = HttpOut("success:false")
            /\ pc' = "loop"
            /\ req' = NoReq
            /\ eeprom' = eeprom
            /\ lastSaved' = lastSaved
    /\ timeout' = 0
    /\ UNCHANGED <<ssid_stored, password_stored, control_password_stored>>
    /\ UNCHANGED <<gpio, ret, wcount, gpio0Low>>
    /\ UNCHANGED wifiVars
    /\ UNCHANGED chanVars

\* handleClearWiFi() that restarts right after clearEEPROM(), before the response
HandleClearWiFi_restartFirst ==
    /\ ServingRequest
    /\ eeprom' = clearEEPROM(eeprom)
    /\ lastSaved' = NoSave
    /\ ssid_stored' = <<>>
    /\ password_stored' = <<>>
    /\ control_password_stored' = DEFAULT_PASSWORD
    /\ emitted' = NoOut
    /\ pc' = "http_restart"
    /\ UNCHANGED <<gpio, ret, timeout, req, wcount, gpio0Low>>
    /\ UNCHANGED wifiVars
    /\ UNCHANGED chanVars

\* handleClearWiFi(): clearEEPROM() (the response and the restart follow)
HandleClearWiFi ==
    /\ ServingRequest
    /\ eeprom' = clearEEPROM(eeprom)
    /\ lastSaved' = NoSave
    /\ ssid_stored' = <<>>
    /\ password_stored' = <<>>
    /\ control_password_stored' = DEFAULT_PASSWORD
    /\ emitted' = NoOut
    /\ pc' = "http_respond"
    /\ UNCHANGED <<gpio, ret, timeout, req, wcount, gpio0Low>>
    /\ UNCHANGED wifiVars
    /\ UNCHANGED chanVars

\* server.send(200, "application/json", "{\"success\":true}") of the two
\* handlers that restart
HttpRespond ==
    /\ pc = "http_respond"
    /\ emitted' = HttpOut("success:true")
    /\ pc' = "http_restart"
    /\ UNCHANGED <<gpio, ret, timeout, req, wcount, gpio0Low, lastSaved>>
    /\ UNCHANGED storeVars
    /\ UNCHANGED wifiVars
    /\ UNCHANGED chanVars

\* the end of the handler without ESP.restart(): it returns to loop()
HandlerRestart_returns ==
    /\ pc = "http_restart"
    /\ pc' = "loop"
    /\ emitted' = NoOut
    /\ UNCHANGED <<gpio, ret, timeout, req, wcount, gpio0Low, lastSaved>>
    /\ UNCHANGED storeVars
    /\ UNCHANGED wifiVars
    /\ UNCHANGED chanVars

\* delay(1000); ESP.restart();
HandlerRestart ==
    /\ pc = "http_restart"
    /\ Reboot
    /\ UNCHANGED eeprom

\* handleSetPassword(): server.arg("password") is "" when the argument is absent
HandleSetPassword ==
    /\ ServingRequest
    /\ \E p \in CtrlArgs :
         /\ control_password_stored' = p
         /\ eeprom' = saveControlPassword(eeprom, p)
    /\ emitted' = HttpOut("success:true")
    /\ UNCHANGED <<ssid_stored, password_stored, gpio, pc, ret, timeout, req, wcount>>
    /\ UNCHANGED wifiVars
    /\ UNCHANGED chanVars
    /\ UNCHANGED <<gpio0Low, lastSaved>>

(* --------------------------- supervisor loop -------------------------- *)
\* the link check of loop() wiping the region before it re-runs the attempt
LoopWifiCheck_wipes ==
    /\ pc = "loop" /\ ~configMode
    /\ IF ~wifiUp
       THEN /\ wifiMode' = "STA"
            /\ timeout' = 0
            /\ ret' = "loop"
            /\ pc' = "wifi_poll"
            /\ eeprom' = clearEEPROM(eeprom)
       ELSE /\ pc' = "mqtt_check"
            /\ UNCHANGED <<wifiMode, timeout, ret, eeprom>>
    /\ emitted' = NoOut
    /\ UNCHANGED <<gpio, wifiUp, armed, configMode, req, wcount>>
    /\ UNCHANGED <<ssid_stored, password_stored, control_password_stored>>
    /\ UNCHANGED chanVars
    /\ UNCHANGED <<gpio0Low, lastSaved>>

\* loop(), Operational branch: if (WiFi.status() != WL_CONNECTED) connectToWiFi();
LoopWifiCheck ==
    /\ pc = "loop" /\ ~configMode
    /\ IF ~wifiUp
       THEN /\ wifiMode' = "STA"
            /\ timeout' = 0
            /\ ret' = "loop"
            /\ pc' = "wifi_poll"
       ELSE /\ pc' = "mqtt_check"
            /\ UNCHANGED <<wifiMode, timeout, ret>>
    /\ emitted' = NoOut
    /\ UNCHANGED <<gpio, wifiUp, armed, configMode, req, wcount>>
    /\ UNCHANGED storeVars
    /\ UNCHANGED chanVars
    /\ UNCHANGED <<gpio0Low, lastSaved>>

\* the channel check of loop() without the call of reconnect()
MqttCheck_noReconnect ==
    /\ pc = "mqtt_check"
    /\ pc' = "client_loop"
    /\ emitted' = NoOut
    /\ UNCHANGED <<attempts, connects>>
    /\ UNCHANGED <<gpio, ret, timeout, req, wcount>>
    /\ UNCHANGED <<mqttConnected, subscribed, announced, statePublished, inbox>>
    /\ UNCHANGED storeVars
    /\ UNCHANGED wifiVars
    /\ UNCHANGED <<gpio0Low, lastSaved>>

\* if (!client.connected()) reconnect();   -- entry of reconnect(): attempts = 0
MqttCheck ==
    /\ pc = "mqtt_check"
    /\ IF ~mqttConnected
       THEN /\ attempts' = 0
            /\ connects' = 0
            /\ pc' = "reconnect"
       ELSE /\ pc' = "client_loop"
            /\ UNCHANGED <<attempts, connects>>
    /\ emitted' = NoOut
    /\ UNCHANGED <<gpio, ret, timeout, req, wcount>>
    /\ UNCHANGED <<mqttConnected, subscribed, announced, statePublished, inbox>>
    /\ UNCHANGED storeVars
    /\ UNCHANGED wifiVars
    /\ UNCHANGED <<gpio0Low, lastSaved>>

\* one evaluation of  while (!client.connected() && attempts < 5)  and, when it
\* holds, the client.connect() call: the broker accepts or refuses; with the
\* radio in access-point mode no broker is reachable
ReconnectStep ==
    /\ pc = "reconnect"
    /\ IF ~mqttConnected /\ attempts < MQTT_ATTEMPTS
       THEN /\ connects < MaxConnects
            /\ connects' = connects + 1
            /\ \E accept \in BOOLEAN :
                 IF accept /\ wifiMode = "STA"
                 THEN /\ mqttConnected' = TRUE
                      /\ subscribed' = FALSE
                      /\ announced' = FALSE
                      /\ statePublished' = statePublished
                      /\ attempts' = attempts
                      /\ pc' = "rc_subscribe"
                 ELSE \* attempts++; delay(2000);
                      /\ attempts' = attempts + 1
                      /\ pc' = pc
                      /\ UNCHANGED <<mqttConnected, subscribed, announced, statePublished>>
       ELSE \* reconnect() returns
            /\ pc' = "client_loop"
            /\ attempts' = 0
            /\ connects' = 0
            /\ UNCHANGED <<mqttConnected, subscribed, announced, statePublished>>
    /\ emitted' = NoOut
    /\ UNCHANGED <<gpio, ret, timeout, req, wcount, inbox>>
    /\ UNCHANGED storeVars
    /\ UNCHANGED wifiVars
    /\ UNCHANGED <<gpio0Low, lastSaved>>

\* client.subscribe(control_topic): takes effect only on a live session
Subscribe ==
    /\ pc = "rc_subscribe"
    /\ subscribed' = mqttConnected
    /\ pc' = "rc_publish"
    /\ emitted' = NoOut
    /\ UNCHANGED <<gpio, ret, timeout, req, wcount>>
    /\ UNCHANGED <<mqttConnected, announced, statePublished, inbox, attempts, connects>>
    /\ UNCHANGED storeVars
    /\ UNCHANGED wifiVars
    /\ UNCHANGED <<gpio0Low, lastSaved>>

\* publish_state(): client.publish fails on a dead session
publish_state(g) == IF mqttConnected THEN StateOut(StatePayload(g)) ELSE NoOut

\* reconnect() without the call of publish_state()
PublishAfterConnect_skipped ==
    /\ pc = "rc_publish"
    /\ emitted' = NoOut
    /\ pc' = "reconnect"
    /\ UNCHANGED <<gpio, ret, timeout, req, wcount>>
    /\ UNCHANGED chanVars
    /\ UNCHANGED storeVars
    /\ UNCHANGED wifiVars
    /\ UNCHANGED <<gpio0Low, lastSaved>>

\* publish_state() as called from reconnect()
PublishAfterConnect ==
    /\ pc = "rc_publish"
    /\ emitted' = publish_state(gpio)
    /\ announced' = (announced \/ mqttConnected)
    /\ statePublished' = (statePublished \/ mqttConnected)
    /\ pc' = "reconnect"
    /\ UNCHANGED <<gpio, ret, timeout, req, wcount>>
    /\ UNCHANGED <<mqttConnected, subscribed, inbox, attempts, connects>>
    /\ UNCHANGED storeVars
    /\ UNCHANGED wifiVars
    /\ UNCHANGED <<gpio0Low, lastSaved>>

\* client.loop() handing over messages without a live, subscribed session
ClientLoop_unsubscribed ==
    /\ pc = "client_loop"
    /\ \/ /\ pc' = "loop"
          /\ inbox' = inbox
       \/ /\ \E m \in Messages : inbox' = m
          /\ pc' = "callback"
    /\ emitted' = NoOut
    /\ UNCHANGED <<gpio, ret, timeout, req, wcount>>
    /\ UNCHANGED <<mqttConnected, subscribed, announced, statePublished, attempts, connects>>
    /\ UNCHANGED storeVars
    /\ UNCHANGED wifiVars
    /\ UNCHANGED <<gpio0Low, lastSaved>>

\* client.loop(): on a live session at most one buffered message of the
\* subscribed topic is handed to callback()
ClientLoop ==
    /\ pc = "client_loop"
    /\ \/ /\ pc' = "loop"
          /\ inbox' = inbox
       \/ /\ mqttConnected /\ subscribed
          /\ \E m \in Messages : inbox' = m
          /\ pc' = "callback"
    /\ emitted' = NoOut
    /\ UNCHANGED <<gpio, ret, timeout, req, wcount>>
    /\ UNCHANGED <<mqttConnected, subscribed, announced, statePublished, attempts, connects>>
    /\ UNCHANGED storeVars
    /\ UNCHANGED wifiVars
    /\ UNCHANGED <<gpio0Low, lastSaved>>

\* callback() that reaches publish_state() on every return
Callback_alwaysPublish ==
    /\ pc = "callback"
    /\ \E r \in callback(inbox, control_password_stored, gpio) :
         IF r.crashed
         THEN ExceptionReset
         ELSE /\ gpio' = r.gpio
              /\ emitted' = publish_state(r.gpio)
              /\ announced' = (announced \/ (r.pub /\ mqttConnected))
              /\ statePublished' = (statePublished \/ mqttConnected)
              /\ inbox' = NoMsg
              /\ pc' = "loop"
              /\ UNCHANGED <<ret, timeout, req, wcount, gpio0Low, lastSaved>>
              /\ UNCHANGED <<mqttConnected, subscribed, attempts, connects>>
              /\ UNCHANGED storeVars
              /\ UNCHANGED wifiVars

\* callback(topic, payload, length) on the message in inbox
Callback ==
    /\ pc = "callback"
    /\ \E r \in callback(inbox, control_password_stored, gpio) :
         IF r.crashed
         THEN ExceptionReset
         ELSE /\ gpio' = r.gpio
              /\ emitted' = IF r.pub THEN publish_state(r.gpio) ELSE LogOut(r.log)
              /\ announced' = (announced \/ (r.pub /\ mqttConnected))
              /\ statePublished' = (statePublished \/ (r.pub /\ mqttConnected))
              /\ inbox' = NoMsg
              /\ pc' = "loop"
              /\ UNCHANGED <<ret, timeout, req, wcount, gpio0Low, lastSaved>>
              /\ UNCHANGED <<mqttConnected, subscribed, attempts, connects>>
              /\ UNCHANGED storeVars
              /\ UNCHANGED wifiVars

(* ----------------------------- environment ---------------------------- *)
\* the station link comes up or goes down
LinkChange ==
    /\ pc \in {"loop", "wifi_poll", "wifi_done", "hc_poll", "hc_done"}
    /\ wifiMode = "STA"
    /\ wifiUp' = ~wifiUp
    /\ UNCHANGED <<gpio, pc, ret, timeout, wifiMode, armed, configMode, req, emitted, wcount>>
    /\ UNCHANGED storeVars
    /\ UNCHANGED chanVars
    /\ UNCHANGED <<gpio0Low, lastSaved>>

\* the broker session is lost
BrokerDrop ==
    /\ mqttConnected
    /\ mqttConnected' = FALSE
    /\ subscribed' = FALSE
    /\ announced' = FALSE
    /\ statePublished' = statePublished
    /\ UNCHANGED <<gpio, pc, ret, timeout, req, emitted, wcount>>
    /\ UNCHANGED <<inbox, attempts, connects>>
    /\ UNCHANGED storeVars
    /\ UNCHANGED wifiVars
    /\ UNCHANGED <<gpio0Low, lastSaved>>

DevicePcs == {"boot", "loop", "wifi_poll", "wifi_done", "hc_poll", "hc_done",
              "http_respond", "http_restart", "mqtt_check", "reconnect", "rc_subscribe",
              "rc_publish", "client_loop", "callback"}

\* power is removed and restored between two steps of the sketch
PowerCycle ==
    /\ pc \in DevicePcs \ {"boot"}
    /\ Reboot
    /\ UNCHANGED eeprom

Next ==
    \/ Setup
    \/ WifiPoll
    \/ WifiDone
    \/ HandleScan
    \/ HandleConnect
    \/ ConnectPoll
    \/ ConnectDone
    \/ HandleClearWiFi
    \/ HttpRespond
    \/ HandlerRestart
    \/ HandleSetPassword
    \/ LoopWifiCheck
    \/ MqttCheck
    \/ ReconnectStep
    \/ Subscribe
    \/ PublishAfterConnect
    \/ ClientLoop
    \/ Callback
    \/ LinkChange
    \/ BrokerDrop
    \/ PowerCycle

Spec == Init /\ [][Next]_vars

(* ------------------- the Operational device in isolation -------------- *)
\* a device that holds saved credentials, in range of its network: it boots,
\* joins the network and runs the Operational branch of loop(); the broker
\* accepts, refuses and drops sessions

\* a boot on a region written by an earlier saveCredentials(), link available
InitLive ==
    /\ RamInit
    /\ eeprom = saveCredentials(Blank00, Rep(97, ShortLen), Rep(115, ShortLen), DEFAULT_PASSWORD)
    /\ gpio \in {AllLow, AllHigh}
    /\ wifiUp = TRUE
    /\ pc = "boot"

\* the steps of the sketch itself: setup() and loop() run on one thread that
\* is never descheduled, so the sketch always takes its next step
SketchNext ==
    \/ Setup
    \/ WifiPoll
    \/ WifiDone
    \/ LoopWifiCheck
    \/ MqttCheck
    \/ ReconnectStep
    \/ Subscribe
    \/ PublishAfterConnect
    \/ ClientLoop
    \/ Callback

NextLive ==
    \/ SketchNext
    \/ BrokerDrop

SpecLive == InitLive /\ [][NextLive]_vars /\ WF_vars(SketchNext)

TypeOK == pc \in DevicePcs

(* ------------------- the credential store in isolation ---------------- *)
\* saveCredentials() taken one storage write at a time, interrupted by a
\* loss of power at any point, and followed by the boot-time load

\* a region written by an earlier, complete saveCredentials()
SavedBefore == saveCredentials(Blank00, Rep(97, ShortLen), Rep(115, ShortLen), DEFAULT_PASSWORD)

StoreRegions == InitRegions \cup {SavedBefore}
StoreNames == {<<>>, Rep(98, ShortLen), Rep(98, SSID_CAP - 1), Rep(98, SSID_CAP)}
StoreSecrets == {Rep(116, ShortLen), Rep(116, SSID_CAP - 1)}
\* control secrets: the default, a short one, the longest one that
\* loadControlPassword() accepts, and one whose last character falls just past
\* the end of the region
StoreCtrl == {DEFAULT_PASSWORD, Rep(120, ShortLen), Rep(120, CTRL_CAP - 1),
              Rep(120, EEPROM_SIZE - CTRL_ADDR)}

InitStore ==
    /\ RamInit
    /\ eeprom \in StoreRegions
    /\ gpio = AllLow
    /\ wifiUp = FALSE
    /\ pc = "store_boot"

\* the boot-time loads of setup() on freshly started globals
StoreBoot ==
    /\ pc \in {"store_boot", "store_saved", "store_crashed", "store_cleared",
                "store_cleared_twice"}
    /\ LET cred == loadCredentials(eeprom, <<>>, <<>>)
       IN  /\ ssid_stored' = cred.ssid
           /\ password_stored' = cred.password
           /\ control_password_stored' = loadControlPassword(eeprom, DEFAULT_PASSWORD)
    /\ pc' = CASE pc = "store_boot" -> "store_idle"
               [] pc = "store_saved" -> "store_loaded"
               [] pc = "store_crashed" -> "store_recovered"
               [] OTHER -> "store_reloaded"
    /\ UNCHANGED <<eeprom, configMode, gpio, ret, timeout, req, emitted, wcount>>
    /\ UNCHANGED <<wifiMode, wifiUp, armed>>
    /\ UNCHANGED chanVars
    /\ UNCHANGED <<gpio0Low, lastSaved>>

\* a set-control-secret request before the save
StoreSetPassword ==
    /\ pc = "store_idle"
    /\ \E p \in StoreCtrl \ {control_password_stored} :
         /\ control_password_stored' = p
         /\ eeprom' = saveControlPassword(eeprom, p)
    /\ UNCHANGED <<ssid_stored, password_stored, configMode, gpio, pc, ret, timeout,
                   req, emitted, wcount>>
    /\ UNCHANGED <<wifiMode, wifiUp, armed>>
    /\ UNCHANGED chanVars
    /\ UNCHANGED <<gpio0Low, lastSaved>>

\* saveCredentials(n, s) is entered
StoreSave ==
    /\ pc = "store_idle"
    /\ \E n \in StoreNames, s \in StoreSecrets :
         req' = [ssid |-> n, password |-> s, ctrl |-> control_password_stored]
    /\ wcount' = 0
    /\ pc' = "store_saving"
    /\ UNCHANGED <<configMode, gpio, ret, timeout, emitted>>
    /\ UNCHANGED storeVars
    /\ UNCHANGED <<wifiMode, wifiUp, armed>>
    /\ UNCHANGED chanVars
    /\ UNCHANGED <<gpio0Low, lastSaved>>

SavingWrites == saveCredentialsWrites(req.ssid, req.password, req.ctrl)

\* the next EEPROM.write of the running save
StoreWrite ==
    /\ pc = "store_saving"
    /\ wcount < Len(SavingWrites)
    /\ eeprom' = EEPROMWrite(eeprom, SavingWrites[wcount + 1][1], SavingWrites[wcount + 1][2])
    /\ wcount' = wcount + 1
    /\ UNCHANGED <<ssid_stored, password_stored, control_password_stored>>
    /\ UNCHANGED <<configMode, gpio, pc, ret, timeout, req, emitted>>
    /\ UNCHANGED <<wifiMode, wifiUp, armed>>
    /\ UNCHANGED chanVars
    /\ UNCHANGED <<gpio0Low, lastSaved>>

\* saveCredentials() returns after its last write
StoreDone ==
    /\ pc = "store_saving"
    /\ wcount = Len(SavingWrites)
    /\ pc' = "store_saved"
    /\ UNCHANGED <<configMode, gpio, ret, timeout, req, emitted, wcount>>
    /\ UNCHANGED storeVars
    /\ UNCHANGED <<wifiMode, wifiUp, armed>>
    /\ UNCHANGED chanVars
    /\ UNCHANGED <<gpio0Low, lastSaved>>

\* power is lost during the save: the globals are gone, the region stays
StoreCrash ==
    /\ pc = "store_saving"
    /\ wcount < Len(SavingWrites)
    /\ ssid_stored' = <<>>
    /\ password_stored' = <<>>
    /\ control_password_stored' = DEFAULT_PASSWORD
    /\ pc' = "store_crashed"
    /\ UNCHANGED <<eeprom, configMode, gpio, ret, timeout, req, emitted, wcount>>
    /\ UNCHANGED <<wifiMode, wifiUp, armed>>
    /\ UNCHANGED chanVars
    /\ UNCHANGED <<gpio0Low, lastSaved>>

\* clearEEPROM(), on the store as booted or as saved and loaded, and once
\* more on the store it has just cleared
StoreClear ==
    /\ pc \in {"store_idle", "store_loaded", "store_cleared"}
    /\ eeprom' = clearEEPROM(eeprom)
    /\ ssid_stored' = <<>>
    /\ password_stored' = <<>>
    /\ control_password_stored' = DEFAULT_PASSWORD
    /\ pc' = IF pc = "store_cleared" THEN "store_cleared_twice" ELSE "store_cleared"
    /\ UNCHANGED <<configMode, gpio, ret, timeout, req, emitted, wcount>>
    /\ UNCHANGED <<wifiMode, wifiUp, armed>>
    /\ UNCHANGED chanVars
    /\ UNCHANGED <<gpio0Low, lastSaved>>

NextStore ==
    \/ StoreBoot
    \/ StoreClear
    \/ StoreSetPassword
    \/ StoreSave
    \/ StoreWrite
    \/ StoreDone
    \/ StoreCrash

SpecStore == InitStore /\ [][NextStore]_vars

(* ============================== claims ================================ *)
ChannelPcs == {"reconnect", "rc_subscribe", "rc_publish", "client_loop", "callback"}

\* a command whose password field is missing or differs from the control secret
BadPassword(m) == ~m.hasPw \/ m.pw # control_password_stored

\* C1: a command whose password field is missing or differs from the
\* in-memory control secret leaves every output line as it was when callback()
\* returns, whatever pin entries it carries.
C1_WrongPasswordChangesNothing ==
    [][(pc = "callback" /\ pc' = "loop" /\ BadPassword(inbox)) => gpio' = gpio]_vars

\* C1 witness: a command was rejected for its password while a line was HIGH.
C1_Witness ==
    /\ emitted = LogOut("Invalid password!")
    /\ pc = "loop"
    /\ gpio # AllLow

\* C2: whenever, during saveCredentials() or after a loss of power that
\* interrupted it once at least one storage write was made, the region carries
\* the marker, the name, secret and control secret read back from the region
\* are the ones being saved (arguments within the length limits).
C2_MarkerImpliesSavedData ==
    (/\ pc \in {"store_saving", "store_crashed"}
     /\ wcount >= 1
     /\ Len(req.ssid) < SSID_CAP /\ Len(req.password) < SSID_CAP
     /\ Len(req.ctrl) \in 1..(CTRL_CAP - 1)
     /\ Valid(eeprom))
    => /\ loadCredentials(eeprom, <<>>, <<>>) = [ssid |-> req.ssid, password |-> req.password]
       /\ loadControlPassword(eeprom, DEFAULT_PASSWORD) = req.ctrl

\* C3: the in-memory control secret is a non-empty string in every reachable state.
C3_ControlSecretNonEmpty == control_password_stored # <<>>

\* C4: a boot that finds the marker absent leaves the network name and secret
\* empty and the control secret equal to the default "appliances123".
C4_NoMarkerLoadsDefaults ==
    [][(pc = "boot" /\ pc' # "boot" /\ ~Valid(eeprom))
         => (/\ ssid_stored' = <<>>
             /\ password_stored' = <<>>
             /\ control_password_stored' = DEFAULT_PASSWORD)]_vars

\* C5: after saveCredentials(n, s) with n and s of at most 99 bytes, the
\* boot-time load yields the name n, the secret s and a valid marker, whatever
\* the region held before.
C5_RoundTrip ==
    (pc = "store_loaded" /\ Len(req.ssid) <= 99 /\ Len(req.password) <= 99)
    => /\ ssid_stored = req.ssid
       /\ password_stored = req.password
       /\ Valid(eeprom)

\* C5 witness: a 99-byte name and a 99-byte secret were saved and loaded back.
C5_Witness ==
    /\ pc = "store_loaded"
    /\ Len(req.ssid) = 99 /\ Len(req.password) = 99
    /\ ssid_stored = req.ssid

\* a step of the loop's link check or of the connection attempt it started
LoopLinkStep ==
    /\ ~configMode
    /\ \/ LoopWifiCheck
       \/ ret = "loop" /\ (WifiPoll \/ WifiDone)

\* C6 as claimed: while Operational, a link loss detected by the loop and the
\* connection attempt re-run for it never change the mode, whether or not the
\* attempt succeeds.
C6_LinkLossNeverChangesMode == [][LoopLinkStep => ~configMode']_vars

\* C6 amended: the loop re-runs the bounded attempt in place; the device stays
\* Operational when the attempt ends with the link up and enters Provisioning
\* exactly when it ends with the link still down.
C6_LinkLossFallsBackOnlyOnFailure ==
    [][LoopLinkStep => (configMode' <=> (pc = "wifi_done" /\ ~wifiUp))]_vars

\* C6 witness: an attempt started by the loop has just ended with the link up
\* and the device is still Operational.
C6_Witness ==
    /\ pc = "mqtt_check"
    /\ emitted = LogOut("WiFi connected!")
    /\ ~configMode

\* C7: while the mode is Provisioning the sketch is never inside the
\* control-channel code (broker connect, subscribe, state publish, servicing).
C7_NoChannelWorkInProvisioning == configMode => pc \notin ChannelPcs

\* C8: within one process lifetime the mode never goes from Provisioning to
\* Operational; the mode flag is only cleared by a restart.
C8_ProvisioningUntilRestart == [][(configMode /\ ~configMode') => pc' = "boot"]_vars

\* C8 witness: still Provisioning after a connect request failed.
C8_Witness ==
    /\ configMode
    /\ pc = "loop"
    /\ emitted = HttpOut("success:false")

\* C9: whenever the channel is serviced or a command is handled on a live,
\* subscribed session, the state was already published in that session.
C9_PublishBeforeCommand ==
    (pc \in {"client_loop", "callback"} /\ mqttConnected /\ subscribed) => announced

\* C9 witness: a command is about to be handled after connect, subscribe and publish.
C9_Witness ==
    /\ pc = "callback"
    /\ inbox.ok
    /\ mqttConnected /\ subscribed /\ announced

\* C10: one call of reconnect() makes at most 5 broker connect attempts.
C10_AtMostFiveConnects == connects <= MQTT_ATTEMPTS

\* a command that parses and carries the in-memory control secret
Authenticated(m) == m.ok /\ ~BadPassword(m)

\* callback() ends: it returns to the loop, or the chip is reset inside it
CallbackEnds == pc = "callback" /\ (pc' = "loop" \/ emitted' = LogOut("Exception (28)"))

\* positions of the entries of the command whose key names pin i
EntriesFor(m, i) == {k \in 1..Len(m.pins) : StrCaseEq(m.pins[k].key, pinMap[i])}

\* the level asked for pin i by the last entry that names it; a value that is
\* not "on"/"high" asks for LOW
Requested(m, i) ==
    LET k == CHOOSE x \in EntriesFor(m, i) : \A y \in EntriesFor(m, i) : y <= x
    IN  m.pins[k].isStr /\ IsOn(m.pins[k].value)

\* C11: when callback() ends on an authenticated command, every configured
\* pin named by an entry (case-insensitively) is at the level its last entry
\* asks for, whatever unknown keys stand before or after it, and the bank
\* still has exactly the configured lines.
C11_KnownEntriesApplied ==
    [][(CallbackEnds /\ Authenticated(inbox))
         => /\ DOMAIN gpio' = 1..pinCount
            /\ \A i \in 1..pinCount :
                 EntriesFor(inbox, i) # {} => gpio'[i] = Requested(inbox, i)]_vars

\* C12: a published state message has one entry per configured pin, in
\* pinMap order, each "on" or "off", and "on" exactly for the lines that are
\* HIGH when it is published.
C12_StateMessageComplete ==
    emitted.chan = "state"
    => /\ DOMAIN emitted.body = 1..pinCount
       /\ \A i \in 1..pinCount :
            /\ emitted.body[i] \in {"on", "off"}
            /\ (emitted.body[i] = "on") <=> gpio[i]

\* C12 witness: the state published after a command reports d0 on and d1 off.
C12_Witness ==
    /\ emitted.chan = "state"
    /\ pc = "loop"
    /\ gpio[1] /\ ~gpio[2]
    /\ emitted.body[1] = "on" /\ emitted.body[2] = "off"

\* C13: after clearEEPROM(), after a second clearEEPROM(), and after the
\* boot-time load that follows either, the marker is absent, the network name
\* and secret load empty and the default control secret validates; the
\* second clearEEPROM() changes neither the region nor the globals.
C13_ClearIdempotent ==
    /\ []((pc \in {"store_cleared", "store_cleared_twice", "store_reloaded"})
            => /\ ~Valid(eeprom)
               /\ loadCredentials(eeprom, <<>>, <<>>) = [ssid |-> <<>>, password |-> <<>>]
               /\ ssid_stored = <<>> /\ password_stored = <<>>
               /\ validateControlPassword(DEFAULT_PASSWORD, control_password_stored))
    /\ [][(pc = "store_cleared" /\ pc' = "store_cleared_twice")
            => /\ eeprom' = eeprom
               /\ ssid_stored' = ssid_stored /\ password_stored' = password_stored
               /\ control_password_stored' = control_password_stored]_vars

\* C13 witness: a store that held a saved 99-byte name was cleared twice.
C13_Witness ==
    /\ pc = "store_cleared_twice"
    /\ Len(req.ssid) = SSID_CAP - 1
    /\ eeprom = Blank00

\* C14: setup() on a region that is all 0x00 or all 0xFF, with GPIO0 read
\* HIGH, ends in Provisioning with the access point up, and starts no station
\* connection attempt; the network name it loaded is empty.
C14_BlankBootEntersProvisioning ==
    [][(pc = "boot" /\ eeprom \in {Blank00, BlankFF} /\ ~gpio0Low')
         => /\ configMode'
            /\ wifiMode' = "AP"
            /\ pc' = "loop"
            /\ ssid_stored' = <<>>]_vars

\* C14 witness: Provisioning reached by a boot without override on the all-0xFF region.
C14_Witness ==
    /\ pc = "loop"
    /\ configMode
    /\ ~gpio0Low
    /\ eeprom = BlankFF
    /\ wifiMode = "AP"

\* C15: once handleConnect() has saved the pair (n, s), the region reads back
\* valid with name n and secret s, and the next setup() that finds this save
\* in place and reads GPIO0 HIGH starts a station connection with
\* ssid_stored = n and password_stored = s.
C15_SavedPairUsedAtNextBoot ==
    /\ []((pc \in {"http_respond", "http_restart"} /\ lastSaved.valid)
            => /\ Valid(eeprom)
               /\ loadCredentials(eeprom, <<>>, <<>>)
                    = [ssid |-> lastSaved.ssid, password |-> lastSaved.password])
    /\ [][(pc = "boot" /\ lastSaved.valid /\ ~gpio0Low' /\ pc' # "boot")
            => /\ pc' = "wifi_poll"
               /\ wifiMode' = "STA"
               /\ ssid_stored' = lastSaved.ssid
               /\ password_stored' = lastSaved.password]_vars

\* C16: when handleConnect() ends with the link still down it sends the
\* failure response, has written nothing to the region, starts no restart,
\* stays in Provisioning, and the device can still be reached to serve the
\* request again.
C16_FailedConnectChangesNothing ==
    [][(pc = "hc_done" /\ ~wifiUp /\ pc' \notin {"hc_done", "boot"})
         => /\ emitted' = HttpOut("success:false")
            /\ eeprom' = eeprom
            /\ pc' = "loop"
            /\ configMode'
            /\ HttpReachable']_vars

\* C17: when setup() reads GPIO0 LOW, whatever the region holds, it leaves
\* the region all zero, the control secret at the default, the network name
\* and secret empty and the device in Provisioning; for the rest of that run
\* the name and secret stay empty, the mode stays Provisioning and
\* connectToWiFi() is never entered.
C17_OverrideWipesAndProvisions ==
    /\ [][(pc = "boot" /\ gpio0Low')
            => /\ eeprom' = Blank00
               /\ control_password_stored' = DEFAULT_PASSWORD
               /\ ssid_stored' = <<>> /\ password_stored' = <<>>
               /\ configMode'
               /\ pc' = "loop"]_vars
    /\ [](gpio0Low
            => /\ configMode
               /\ ssid_stored = <<>> /\ password_stored = <<>>
               /\ pc \notin {"wifi_poll", "wifi_done"})

\* C17 witness: a run started with the override asserted, later serving a
\* connect request that failed, the region still all zero.
C17_Witness ==
    /\ gpio0Low
    /\ pc = "loop"
    /\ configMode
    /\ eeprom = Blank00
    /\ emitted = HttpOut("success:false")

\* the write of the handler that is about to restart stands in the region:
\* the pair saved by handleConnect(), or the zeroes of clearEEPROM()
Committed ==
    IF lastSaved.valid
    THEN /\ Valid(eeprom)
         /\ loadCredentials(eeprom, <<>>, <<>>)
              = [ssid |-> lastSaved.ssid, password |-> lastSaved.password]
    ELSE eeprom = Blank00

\* C18: in handleConnect() on success and in handleClearWiFi() the response
\* is sent with the write already in the region, and the restart is reached
\* only from the response: where the handler is about to respond, the write
\* is in place and nothing was sent; where it is about to restart, the write
\* is in place and the response was the last thing sent; the step that leads
\* to the restart is the one that sends the response.
C18_WriteRespondRestart ==
    /\ []((pc = "http_respond" => (Committed /\ emitted = NoOut))
          /\ (pc = "http_restart" => (Committed /\ emitted = HttpOut("success:true"))))
    /\ [][(pc # "http_restart" /\ pc' = "http_restart")
            => /\ pc = "http_respond"
               /\ emitted' = HttpOut("success:true")
               /\ eeprom' = eeprom]_vars

\* C18 witness: handleConnect() has saved and responded and is about to restart.
C18_Witness ==
    /\ pc = "http_restart"
    /\ lastSaved.valid
    /\ req.ssid = lastSaved.ssid /\ req.password = lastSaved.password
    /\ emitted = HttpOut("success:true")

\* C19: a saveControlPassword() call leaves every byte below the
\* control-secret address (name, secret and marker) as it was, so the marker
\* test and the loaded name and secret are the same before and after; of the
\* globals it changes only the control secret.
C19_SetPasswordFrame ==
    [][(pc = "store_idle" /\ pc' = "store_idle"
        /\ control_password_stored' # control_password_stored)
         => /\ \A a \in 0..(CTRL_ADDR - 1) : eeprom'[a] = eeprom[a]
            /\ Valid(eeprom') = Valid(eeprom)
            /\ loadCredentials(eeprom', <<>>, <<>>) = loadCredentials(eeprom, <<>>, <<>>)
            /\ ssid_stored' = ssid_stored
            /\ password_stored' = password_stored]_vars

\* C19 witness: on a valid region with a loaded name, the control secret was
\* replaced by one that fills the region to its end.
C19_Witness ==
    /\ pc = "store_idle"
    /\ Valid(eeprom)
    /\ ssid_stored = Rep(97, ShortLen)
    /\ Len(control_password_stored) = EEPROM_SIZE - CTRL_ADDR
    /\ eeprom[EEPROM_SIZE - 1] = 120

\* C20: when callback() ends on an authenticated command, every configured
\* pin that no key of the command names is at the level it had when the
\* handler started, and a state message published by the handler reports
\* that level for it.
C20_UnnamedPinsKeepState ==
    [][(CallbackEnds /\ Authenticated(inbox))
         => \A i \in 1..pinCount :
              EntriesFor(inbox, i) = {}
              => /\ gpio'[i] = gpio[i]
                 /\ emitted'.chan = "state"
                      => emitted'.body[i] = (IF gpio[i] THEN "on" ELSE "off")]_vars

\* a string with its upper-case letters replaced by lower-case ones
Lowered(v) == [k \in 1..Len(v) |-> ToLower(v[k])]

\* the last entry of the command that names pin i
LastEntryFor(m, i) ==
    m.pins[CHOOSE x \in EntriesFor(m, i) : \A y \in EntriesFor(m, i) : y <= x]

\* C21: when callback() returns from an authenticated command, each configured
\* pin whose last naming entry carries a string value v is HIGH exactly when
\* v, lower-cased, is "on" or "high", and LOW for every other string ("off",
\* "low", "1" and the empty string included), whatever its level was before.
C21_OnHighElseOff ==
    [][(CallbackEnds /\ Authenticated(inbox) /\ pc' = "loop")
         => \A i \in 1..pinCount :
              (EntriesFor(inbox, i) # {} /\ LastEntryFor(inbox, i).isStr)
              => (gpio'[i] <=> Lowered(LastEntryFor(inbox, i).value)
                                 \in {<<111, 110>>, <<104, 105, 103, 104>>})]_vars

\* C21 witness: d1 is HIGH and d0 LOW after a command was applied and published.
C21_Witness ==
    /\ pc = "loop"
    /\ emitted.chan = "state"
    /\ gpio[2] /\ ~gpio[1]
    /\ emitted.body[2] = "on"

\* C22: when callback() ends on a payload that failed to parse, it has
\* returned to the loop with every output line, the control secret, the mode
\* and the region as they were, and it published no state message.
C22_ParseFailureDiscarded ==
    [][(CallbackEnds /\ ~inbox.ok)
         => /\ pc' = "loop"
            /\ gpio' = gpio
            /\ emitted'.chan # "state"
            /\ control_password_stored' = control_password_stored
            /\ configMode' = configMode
            /\ eeprom' = eeprom
            /\ mqttConnected' = mqttConnected]_vars

\* C22 witness: a payload was dropped for a parse error while a line was HIGH
\* and the session was up.
C22_Witness ==
    /\ emitted = LogOut("JSON parse error")
    /\ pc = "loop"
    /\ gpio # AllLow
    /\ mqttConnected

\* C23: setup() on a region that carries the marker but whose name length
\* byte is outside 1..99, with GPIO0 read HIGH, loads an empty network name
\* and ends in Provisioning with the access point up; it starts no station
\* connection attempt and leaves the region as it is.
C23_CorruptNameMeansUnconfigured ==
    [][(/\ pc = "boot"
        /\ Valid(eeprom)
        /\ EEPROMRead(eeprom, SSID_ADDR) \notin 1..(SSID_CAP - 1)
        /\ ~gpio0Low')
         => /\ ssid_stored' = <<>>
            /\ configMode'
            /\ wifiMode' = "AP"
            /\ pc' = "loop"
            /\ eeprom' = eeprom]_vars

\* C23 witness: Provisioning reached by a boot without override on the region
\* whose name length byte is 100.
C23_Witness ==
    /\ pc = "loop"
    /\ configMode
    /\ ~gpio0Low
    /\ eeprom = CorruptLen100
    /\ ssid_stored = <<>>

\* C24: the polling loop of handleConnect() and the polling loop of
\* connectToWiFi() give up at the same count: neither leaves its loop with the
\* link down at a count at which the other would poll again.
C24_SamePollBound ==
    /\ [][(pc = "hc_poll" /\ pc' = "hc_done" /\ ~wifiUp) => timeout >= WIFI_POLLS]_vars
    /\ [][(pc = "wifi_poll" /\ pc' = "wifi_done" /\ ~wifiUp) => timeout >= HTTP_POLLS]_vars

\* C25: the polling loop of connectToWiFi() never counts past 40: each poll
\* that finds the link down adds one to a counter below 40, and at 40 the
\* loop is left even with the link down.  When the attempt ends with the link
\* up the client is armed and the mode stays as it was (Operational); when it
\* ends with the link down the device enters Provisioning.
C25_StationAttemptBounded ==
    /\ [](pc \in {"wifi_poll", "wifi_done"} => timeout <= WIFI_POLLS)
    /\ [][(pc = "wifi_poll" /\ pc' = "wifi_poll" /\ timeout' # timeout)
            => (~wifiUp /\ timeout < WIFI_POLLS /\ timeout' = timeout + 1)]_vars
    /\ [][(WifiPoll /\ timeout = WIFI_POLLS) => pc' = "wifi_done"]_vars
    /\ [][(pc = "wifi_done" /\ pc' \notin {"wifi_done", "boot"})
            => IF wifiUp THEN armed' /\ ~configMode /\ ~configMode'
                         ELSE configMode' /\ wifiMode' = "AP"]_vars

\* C25 witness: an attempt ran out of its 40 polls with the link down.
C25_Witness ==
    /\ pc = "wifi_done"
    /\ timeout = WIFI_POLLS
    /\ ~wifiUp

\* client.connect() was refused: reconnect() counts a failed attempt
Refused == pc = "reconnect" /\ pc' = "reconnect" /\ attempts' = attempts + 1

\* C26: if from some point on the device stays Operational with the station
\* link up and is not restarted, the broker refuses no connect and drops no
\* session, then from some point on the session is up with the command topic
\* subscribed and the state published in it.
C26_SessionReestablished ==
    (/\ <>[](wifiUp /\ ~configMode /\ pc # "boot" /\ connects < MaxConnects)
     /\ <>[][~Refused /\ ~BrokerDrop]_vars)
    => <>[](mqttConnected /\ subscribed /\ announced)


\* reconnect() made two connect calls and counted no refusal: the first session
\* was lost, and the second is up, subscribed and announced
C26_Witness ==
    /\ ~configMode /\ wifiUp /\ pc = "reconnect"
    /\ connects >= 2 /\ attempts = 0
    /\ mqttConnected /\ subscribed /\ announced


\* the control secret in force once the step is over: the value setup() will
\* load when the step restarts the chip, the value in memory otherwise
SecretAfterStep ==
    IF pc' = "boot" THEN loadControlPassword(eeprom', DEFAULT_PASSWORD)
                    ELSE control_password_stored'

\* C27: the persisted region changes only in the boot-time override wipe and in
\* the provisioning handlers (connect on success, clear, set-control-secret);
\* no step taken in Operational mode changes it; the handling of an inbound
\* command changes neither the region nor the control secret in force.
C27_RegionWriters ==
    /\ [][eeprom' # eeprom =>
            \/ pc = "boot" /\ gpio0Low'
            \/ pc = "hc_done" /\ configMode /\ wifiUp
            \/ ServingRequest /\ pc' \in {"loop", "http_respond"}]_vars
    /\ [][(~configMode /\ pc # "boot") => eeprom' = eeprom]_vars
    /\ [][pc = "callback" => /\ eeprom' = eeprom
                             /\ SecretAfterStep = control_password_stored]_vars

\* an authenticated command was handled on a device whose control secret was
\* set through the set-control-secret handler
C27_Witness ==
    /\ pc = "loop" /\ ~configMode
    /\ control_password_stored = Rep(120, ShortLen)
    /\ loadControlPassword(eeprom, DEFAULT_PASSWORD) = control_password_stored
    /\ emitted.chan = "state"


\* C28: setup() leaves every output line OFF, and from then until the next
\* restart the lines change only in callback() handling an authenticated
\* command: no HTTP handler, station or broker reconnect, publish or fallback to
\* Provisioning changes a line.
C28_OnlyCommandsDrivePins ==
    /\ [][(pc = "boot" /\ pc' # "boot") => gpio' = AllLow]_vars
    /\ [][gpio' # gpio =>
            \/ pc = "boot"
            \/ pc' = "boot"
            \/ pc = "callback" /\ Authenticated(inbox)]_vars

\* a line switched ON by a command is still ON after the fallback to
\* Provisioning and a served scan request
C28_Witness ==
    /\ configMode /\ pc = "loop"
    /\ gpio # AllLow
    /\ emitted = HttpOut("networks")


\* C29: after saveCredentials() ran with a control secret of 1..49 bytes in
\* force (one set through the set-control-secret handler, or one loaded at
\* boot) and the chip restarted, the loaded control secret is that secret: it
\* validates, and the default does not validate unless it is that secret.
C29_ControlSecretCarriedForward ==
    (pc = "store_loaded" /\ Len(req.ctrl) \in 1..(CTRL_CAP - 1))
        => /\ validateControlPassword(req.ctrl, control_password_stored)
           /\ (req.ctrl # DEFAULT_PASSWORD
                 => ~validateControlPassword(DEFAULT_PASSWORD, control_password_stored))

\* a 49-byte control secret, set before the save, is in force after the restart
C29_Witness ==
    /\ pc = "store_loaded"
    /\ req.ctrl = Rep(120, CTRL_CAP - 1)
    /\ control_password_stored = req.ctrl
    /\ Valid(eeprom)


\* C30: whenever the set-control-secret handler has just reported success for
\* a password p, the secret that the next boot loads from the region as it
\* stands (no clear, no override) equals p, the secret now in memory.
C30_SecretStableAcrossRestart ==
    (pc = "loop" /\ configMode /\ emitted = HttpOut("success:true"))
        => loadControlPassword(eeprom, DEFAULT_PASSWORD) = control_password_stored


\* C31: whenever the device is in Provisioning and loop() is about to serve
\* requests, the radio is in access-point mode with the configuration access
\* point up, whatever requests were served before.
C31_ProvisioningKeepsAccessPoint ==
    (pc = "loop" /\ configMode) => wifiMode = "AP"


\* C32: an authenticated command never resets the chip, whatever the type of
\* its pin values: callback() returns to loop(), every configured pin whose
\* last entry carries a value that is not a string is OFF, and the state has
\* been published on the live session.
C32_NonStringValueIsOff ==
    [][(CallbackEnds /\ Authenticated(inbox))
         => /\ pc' = "loop"
            /\ \A i \in 1..pinCount :
                 (EntriesFor(inbox, i) # {} /\ ~LastEntryFor(inbox, i).isStr)
                     => ~gpio'[i]
            /\ mqttConnected => emitted' = StateOut(StatePayload(gpio'))]_vars


\* the pair that setup() loads from region e on freshly started globals
StoredPair(e) == loadCredentials(e, <<>>, <<>>)

\* connectToWiFi() ends with the link down and calls startConfigMode()
FallsBack == pc = "wifi_done" /\ ~configMode /\ configMode'

\* C33: the station attempt and the fallback to Provisioning that ends it, at
\* boot or from loop(), leave the region byte for byte as it was; at the
\* fallback the region still holds the name and secret just tried, and a
\* setup() that finds a region with a non-empty name and reads GPIO0 HIGH
\* starts a station attempt with the pair stored in it.
C33_FallbackKeepsRegion ==
    /\ [][(~configMode /\ pc \in {"loop", "wifi_poll", "wifi_done"}) => eeprom' = eeprom]_vars
    /\ [][FallsBack => /\ eeprom' = eeprom
                       /\ Len(ssid_stored) > 0
                       /\ StoredPair(eeprom') = [ssid |-> ssid_stored,
                                                password |-> password_stored]]_vars
    /\ [][(pc = "boot" /\ pc' # "boot" /\ ~gpio0Low' /\ Len(StoredPair(eeprom).ssid) > 0)
            => /\ pc' = "wifi_poll"
               /\ wifiMode' = "STA"
               /\ [ssid |-> ssid_stored', password |-> password_stored'] = StoredPair(eeprom)]_vars

\* the attempt re-run by loop() after a link loss has timed out: the device is
\* in Provisioning and the region still holds a valid pair
C33_Witness ==
    /\ configMode /\ pc = "mqtt_check"
    /\ emitted = LogOut("WiFi connection failed! Starting config mode...")
    /\ Valid(eeprom)
    /\ Len(StoredPair(eeprom).ssid) > 0


\* C34: when callback() ends on an authenticated command it has returned to
\* loop() and made its one publish, carrying the lines as they are after all
\* entries were applied (commands without pins or with unknown pins only
\* included); when it ends on a payload that failed to parse or to
\* authenticate, nothing was published.
C34_OnePublishPerCommand ==
    [][CallbackEnds =>
         IF Authenticated(inbox)
         THEN /\ pc' = "loop"
              /\ mqttConnected => emitted' = StateOut(StatePayload(gpio'))
         ELSE emitted'.chan # "state"]_vars


\* C35: setup() ends with every output line OFF after every start of the
\* chip, the restarts of the connect and clear handlers included; until the
\* first state message since that start is published the lines stay OFF, and
\* that first message is the one reconnect() publishes, with "off" for every
\* configured pin.
C35_OutputsStartOff ==
    /\ [][(pc = "boot" /\ pc' # "boot") => gpio' = AllLow]_vars
    /\ []((pc # "boot" /\ ~statePublished) => gpio = AllLow)
    /\ [][(~statePublished /\ statePublished')
            => /\ pc = "rc_publish"
               /\ emitted' = StateOut([i \in 1..pinCount |-> "off"])]_vars

\* the first state message after the restart scheduled by handleConnect() has
\* just been published
C35_Witness ==
    /\ lastSaved.valid
    /\ pc = "reconnect" /\ connects = 1 /\ attempts = 0
    /\ statePublished
    /\ emitted = StateOut([i \in 1..pinCount |-> "off"])


\* C36: whenever setup() is over and the device is not in Provisioning, the
\* region carries the marker and a non-empty network name, and GPIO0 was read
\* HIGH at this start: a device without valid stored network credentials is
\* never Operational.
C36_OperationalNeedsCredentials ==
    (pc # "boot" /\ ~configMode)
        => /\ Valid(eeprom)
           /\ Len(StoredPair(eeprom).ssid) > 0
           /\ StoredPair(eeprom).ssid = ssid_stored
           /\ ~gpio0Low

\* Operational with the broker session up, on the pair saved by handleConnect()
C36_Witness ==
    /\ pc = "client_loop" /\ ~configMode
    /\ mqttConnected /\ armed
    /\ lastSaved.valid
    /\ StoredPair(eeprom).ssid = lastSaved.ssid


\* handleClearWiFi() has wiped and has not restarted yet
Clearing == pc \in {"http_respond", "http_restart"} /\ ~lastSaved.valid

\* C37: handleClearWiFi() leaves the region all zero whatever it held, and from
\* there the handler only goes on to its response and to the restart (or the
\* chip is restarted by a loss of power), with the region still all zero; a setup() that finds the region all zero and
\* reads GPIO0 HIGH ends in Provisioning with the access point up, the network
\* name and secret empty and the default control secret in memory.
C37_ClearWipesAndRestarts ==
    /\ [][(pc = "loop" /\ pc' = "http_respond") => eeprom' = Blank00]_vars
    /\ [](Clearing => eeprom = Blank00)
    /\ [][(Clearing /\ pc' # pc)
            => /\ pc' \in {IF pc = "http_respond" THEN "http_restart" ELSE "boot", "boot"}
               /\ eeprom' = Blank00]_vars
    /\ [][(pc = "boot" /\ pc' # "boot" /\ eeprom = Blank00 /\ ~gpio0Low')
            => /\ configMode' /\ wifiMode' = "AP" /\ pc' = "loop"
               /\ ssid_stored' = <<>> /\ password_stored' = <<>>
               /\ control_password_stored' = DEFAULT_PASSWORD
               /\ validateControlPassword(DEFAULT_PASSWORD, control_password_stored')]_vars

\* a device that had joined its stored network, fell back to Provisioning and
\* was cleared is about to restart on the zeroed region
C37_Witness ==
    /\ pc = "http_restart"
    /\ ~lastSaved.valid
    /\ armed
    /\ eeprom = Blank00
    /\ emitted = HttpOut("success:true")

====
